---- MODULE Spec2Model ----
(***************************************************************************)
(* A model of iCommand's embedding-backed local search engine:             *)
(*   - the SQLite store of command records            (src/icommand/db.py) *)
(*   - sync() and search()                        (src/icommand/search.py) *)
(*   - the provider factory                   (src/icommand/embeddings.py) *)
(*   - the interactive browser's query coordination  (src/icommand/tui.py) *)
(*                                                                         *)
(* Nullable columns are option values: NULL is the empty tuple and a       *)
(* present value x is <<x>>.  Embedding vectors are tuples of small        *)
(* integers, all exactly representable as 32-bit floats, so the float32    *)
(* conversions of the code keep every component.                           *)
(***************************************************************************)
EXTENDS Integers, Sequences, FiniteSets, TLC

\* ------------------------------------------------------------------ bounds
MaxRows == 2
MaxTime == 2
MaxSyncs == 2
MaxInputs == 2

\* ------------------------------------------------------ program constants
Precision == 4
DefaultMaxResults == 10
DefaultTuiMaxResults == 5
RecentLimit == 20

\* ------------------------------------------------------- values and inputs
NULL == <<>>
Some(x) == <<x>>
IsNull(x) == x = NULL

Procs == {"tui", "cli"}
Texts == {"ls", "git"}
Dirs == {"/repo"}
Vectors == {<<0, 0>>, <<1, 0>>, <<-1, 0>>, <<1, 1>>}
Dim == Len(CHOOSE v \in Vectors : TRUE)
KnownProviders == {"local", "openai", "anthropic", "ollama"}
Providers == {"local", "openai", "bogus"}
StubBackend == [t \in Texts |-> IF t = "ls" THEN <<1, 0>> ELSE <<1, 1>>]

VARIABLES
  schema,      \* the commands table: "none", "bare" (neither embedded_at nor embedding), "legacy" (no embedding),
               \* "unstamped" (embedding, no embedded_at) or "current"
  rows,        \* the committed commands table, in id order (id = position)
  now,         \* the clock datetime('now','localtime') reads
  provider,    \* the provider name config.toml holds
  backend,     \* the local model as a function from text to vector
  lock,        \* the holder of SQLite's write lock, or "none"
  pc,          \* each sync() caller's position
  fetched,     \* sync(): the rows get_unembedded_commands() returned
  vecs,        \* sync(): the vectors provider.embed returned
  txn,         \* mark_embedded(): the UPDATEs executed and not yet committed
  syncRet,     \* the outcome of each caller's last sync()
  syncCalls,   \* the number of sync() calls started
  stale,       \* history: the committed store changed since the caller's fetch
  clean,       \* history: a sync() returned successfully and nothing was committed since its fetch or after it
  retry,       \* history: the rows the last sync() whose backend call failed had fetched, while no commit followed its fetch
  lastSearch,  \* the outcome of a search() call, until its caller has taken it
  loads,       \* history: how often each process has loaded the local model: "never", "once", "again"
  config,            \* load_config(): max_results and tui_max_results of config.toml
  _query,            \* ICommandApp._query: the latest input text
  _results,          \* ICommandApp._results: the published result list
  _syncing,          \* ICommandApp._syncing
  _debounce_task,    \* ICommandApp._debounce_task: the latest debounce task
  workers,           \* the _run_search thread workers that have not finished
  syncWorker,        \* the position of the _start_sync thread worker
  inputs,            \* the number of Input.Changed events so far
  dispatched,        \* history: the number of _run_search calls so far
  shown,             \* history: the dispatch number and the query of the worker whose list is published
  selected,          \* the command action_select printed and passed to self.exit, once the app has exited
  _command_count,    \* ICommandApp._command_count
  empty_state,       \* the #empty-state widget: whether it is displayed, and its text
  main_thread_calls  \* history: the store, backend and config calls the handlers on the main thread have made

storeVars == <<schema, rows, now, provider, backend, lock>>
syncVars == <<pc, fetched, vecs, txn, syncRet, syncCalls, stale, clean, retry>>
searchVars == <<lastSearch>>
providerVars == <<loads>>
configVars == <<config>>
tuiVars ==
  <<_query, _results, _syncing, _debounce_task, workers, syncWorker, inputs, dispatched, shown, selected,
    _command_count, empty_state, main_thread_calls>>
vars == <<storeVars, syncVars, searchVars, providerVars, configVars, tuiVars>>

\* ------------------------------------------------------------------- db.py
\* The layouts whose table has the column the statement names; on the
\* others the statement raises sqlite3.OperationalError.
HasEmbeddedAt(layout) == layout \in {"legacy", "current"}
HasEmbedding(layout) == layout \in {"unstamped", "current"}
\* init_db on a layout: CREATE TABLE IF NOT EXISTS creates the whole table
\* only when there is none; ALTER TABLE adds the embedding column, and no
\* statement adds embedded_at.
Migrated(layout) == IF layout \in {"bare", "unstamped"} THEN "unstamped" ELSE "current"

\* INSERT INTO commands (command, directory): the other columns take their
\* defaults, id the next AUTOINCREMENT value, timestamp the clock.
NewRowStamped(id, command, directory, at) ==
  [id |-> id, command |-> command, directory |-> Some(directory),
   timestamp |-> at, embedded_at |-> Some(at), embedding |-> NULL]
NewRow(id, command, directory, at) ==
  [id |-> id, command |-> command, directory |-> Some(directory),
   timestamp |-> at, embedded_at |-> NULL, embedding |-> NULL]

\* SELECT id, command, directory, timestamp ... WHERE embedded_at IS NULL
UnembeddedRow(r) == IsNull(r.embedded_at)
Projection(r) == [id |-> r.id, command |-> r.command, directory |-> r.directory, timestamp |-> r.timestamp]
RECURSIVE MapProjection(_)
MapProjection(s) == IF s = <<>> THEN <<>> ELSE <<Projection(Head(s))>> \o MapProjection(Tail(s))
get_unembedded_commands(table) == MapProjection(SelectSeq(table, UnembeddedRow))

\* embedding.astype(np.float32).tobytes(): the components as 32-bit floats
ToBlob(v) == [i \in 1..Len(v) |-> v[i]]
\* np.frombuffer(blob, dtype=np.float32)
FromBlob(b) == [i \in 1..Len(b) |-> b[i]]

\* UPDATE commands SET embedded_at = datetime('now'), embedding = ? WHERE id = ?
UpdateRowVectorOnly(r, at, blob) == [r EXCEPT !.embedding = Some(blob)]
UpdateRow(r, at, blob) == [r EXCEPT !.embedded_at = Some(at), !.embedding = Some(blob)]
ApplyUpdateEveryRow(table, u) == [i \in 1..Len(table) |-> UpdateRow(table[i], u.at, u.blob)]
ApplyUpdate(table, u) == [i \in 1..Len(table) |-> IF table[i].id = u.id THEN UpdateRow(table[i], u.at, u.blob) ELSE table[i]]
ApplyTxnFirstOnly(table, updates) == IF updates = <<>> THEN table ELSE ApplyUpdate(table, Head(updates))
RECURSIVE ApplyTxn(_, _)
ApplyTxn(table, updates) == IF updates = <<>> THEN table ELSE ApplyTxn(ApplyUpdate(table, Head(updates)), Tail(updates))

\* WHERE embedding IS NOT NULL
EmbeddedRowByStamp(r) == ~IsNull(r.embedded_at)
EmbeddedRow(r) == ~IsNull(r.embedding)

\* ORDER BY timestamp DESC: any order of the rows that is newest first (SQL
\* leaves the order of rows with equal timestamps open).
NewestFirst(s) == \A i \in 1..Len(s), j \in 1..Len(s) : i < j => s[i].timestamp >= s[j].timestamp
Orderings(S) ==
  {s \in [1..Cardinality(S) -> S] : (\A i, j \in 1..Cardinality(S) : i # j => s[i] # s[j]) /\ NewestFirst(s)}
RowSet(table) == {table[i] : i \in 1..Len(table)}
get_all_embedded_commands(table) == Orderings({r \in RowSet(table) : EmbeddedRow(r)})
get_all_commands(table) == Orderings(RowSet(table))

\* ----------------------------------------------------------- embeddings.py
\* get_provider: an instance of the class registered under the name, or
\* ValueError with a message that lists the registered names
get_providerAny(name) == [ok |-> TRUE, name |-> name, available |-> {}]
get_provider(name) ==
  IF name \in KnownProviders THEN [ok |-> TRUE, name |-> name, available |-> {}]
  ELSE [ok |-> FALSE, name |-> name, available |-> KnownProviders]
\* LocalProvider(): a new instance holds no model.  embed loads the model
\* into an instance that holds none, so every instance that embeds has run
\* one load; `count` is the process's history of loads.
LocalProvider == [_session |-> NULL]
OneMore(count) == IF count = "never" THEN "once" ELSE "again"
LoadsAfterEmbed(self, count) == IF IsNull(self._session) THEN OneMore(count) ELSE count
\* provider.embed(texts): one vector per text in the texts' order; the stub
\* providers raise NotImplementedError; the local one fails when the model
\* cannot be loaded or run (up = FALSE).
embedFallsBack(name, model, texts, up) ==
  IF ~up THEN [status |-> "BackendUnavailableError", vectors |-> <<>>]
  ELSE [status |-> "ok", vectors |-> [i \in 1..Len(texts) |-> model[texts[i]]]]
embed(name, model, texts, up) ==
  IF name # "local" THEN [status |-> "NotImplementedError", vectors |-> <<>>]
  ELSE IF ~up THEN [status |-> "BackendUnavailableError", vectors |-> <<>>]
  ELSE [status |-> "ok", vectors |-> [i \in 1..Len(texts) |-> model[texts[i]]]]

\* --------------------------------------------------------------- search.py
NoSync == [status |-> "none", count |-> 0]
NoRetry == [valid |-> FALSE, set |-> <<>>]
NoSearch == [status |-> "none", query |-> "", k |-> 0, commands |-> <<>>, results |-> <<>>]
RaisedSwallowed(kind) == [status |-> "ok", count |-> 0]
Raised(kind) == [status |-> kind, count |-> 0]
Returned(n) == [status |-> "ok", count |-> n]

RECURSIVE Dot(_, _)
Dot(a, b) == IF a = <<>> \/ b = <<>> THEN 0 ELSE Head(a) * Head(b) + Dot(Tail(a), Tail(b))
Norm2(v) == Dot(v, v)
Sgn(x) == IF x > 0 THEN 1 ELSE IF x < 0 THEN -1 ELSE 0
Abs(x) == IF x < 0 THEN -x ELSE x

\* A similarity dot / (|v| * |q|) is kept exactly, as the pair d, n that
\* stands for d / sqrt(n); a zero denominator is replaced by 1e-10, under
\* which the zero dot product gives 0.
Cosine(v, q) ==
  IF Norm2(v) * Norm2(q) = 0 THEN [d |-> 0, n |-> 1]
  ELSE [d |-> Dot(v, q), n |-> Norm2(v) * Norm2(q)]
SimKeyLE(a, b) == Sgn(a.d) * a.d * a.d * b.n <= Sgn(b.d) * b.d * b.d * a.n

\* round(float(sim), 4), in units of 10^-4: the integer nearest to
\* 10^4 * d / sqrt(n), found by bisection on (2r - 1)^2 * n <= 4 * 10^8 * d^2.
Scale == 10 ^ Precision
RECURSIVE Bisect(_, _, _, _)
Bisect(lo, hi, d, n) ==
  IF lo = hi THEN lo
  ELSE LET mid == (lo + hi + 1) \div 2
       IN IF (2 * mid - 1) * (2 * mid - 1) * n <= 4 * Scale * Scale * d * d
          THEN Bisect(mid, hi, d, n) ELSE Bisect(lo, mid - 1, d, n)
Round4(sim) == Sgn(sim.d) * Bisect(0, Scale, Abs(sim.d), sim.n)

\* np.argsort(similarities): an ascending order of the indices; the default
\* sort kind is not stable, so equal similarities come in any order.
IndexOrders(n) == {p \in [1..n -> 1..n] : \A i, j \in 1..n : i # j => p[i] # p[j]}
argsort(sims) == {p \in IndexOrders(Len(sims)) : \A i, j \in 1..Len(sims) : i < j => SimKeyLE(sims[p[i]], sims[p[j]])}
\* s[::-1]
Reversed(s) == [i \in 1..Len(s) |-> s[Len(s) + 1 - i]]
\* s[:k], with Python's meaning of a negative k
SliceInclusive(s, k) ==
  LET n == IF k >= 0 THEN (IF k + 1 < Len(s) THEN k + 1 ELSE Len(s)) ELSE (IF Len(s) + k > 0 THEN Len(s) + k ELSE 0)
  IN [i \in 1..n |-> s[i]]
Slice(s, k) ==
  LET n == IF k >= 0 THEN (IF k < Len(s) THEN k ELSE Len(s)) ELSE (IF Len(s) + k > 0 THEN Len(s) + k ELSE 0)
  IN [i \in 1..n |-> s[i]]
top_indicesAscending(order, max_results) == Slice(order, max_results)
top_indices(order, max_results) == Slice(Reversed(order), max_results)

\* directory=commands[i]["directory"] or ""
OrEmptyUnknown(d) == IF IsNull(d) THEN "unknown" ELSE d[1]
OrEmpty(d) == IF IsNull(d) THEN "" ELSE IF d[1] = "" THEN "" ELSE d[1]
SearchResult(cmd, sim) ==
  [command |-> cmd.command, directory |-> OrEmpty(cmd.directory),
   timestamp |-> cmd.timestamp, similarity_score |-> Round4(sim)]

\* search(query, max_results) from the loaded commands on: [] for no
\* commands; else the similarities, the top indices under one outcome of
\* argsort, the result list.
Similarities(commands, query_vec) == [i \in 1..Len(commands) |-> Cosine(FromBlob(commands[i].embedding[1]), query_vec)]
ResultListRepeated(commands, sims, top) == [j \in 1..Len(top) |-> SearchResult(commands[top[1]], sims[top[1]])]
ResultList(commands, sims, top) == [j \in 1..Len(top) |-> SearchResult(commands[top[j]], sims[top[j]])]
ScanStackFails(commands, query_vec, max_results) ==
  IF commands = <<>> THEN {[status |-> "ValueError", results |-> <<>>]}
  ELSE LET sims == Similarities(commands, query_vec)
       IN {[status |-> "ok", results |-> ResultList(commands, sims, top_indices(order, max_results))] : order \in argsort(sims)}
Scan(commands, query_vec, max_results) ==
  IF commands = <<>> THEN {[status |-> "ok", results |-> <<>>]}
  ELSE LET sims == Similarities(commands, query_vec)
       IN {[status |-> "ok", results |-> ResultList(commands, sims, top_indices(order, max_results))] : order \in argsort(sims)}

\* ------------------------------------------------------- the store's start
\* A store is new (no table yet) or was created by a release whose commands
\* table had no embedding column: init_db adds that column to "existing
\* databases that don't have it" (db.py:42).  Such a store holds records
\* whose embedded_at that release did or did not set.
LegacyRow(id, command, embedded_at) ==
  [id |-> id, command |-> command, directory |-> NULL,
   timestamp |-> 1, embedded_at |-> embedded_at, embedding |-> NULL]
LegacyStores == {<<>>} \cup {<<LegacyRow(1, "ls", e)>> : e \in {NULL, Some(1)}}

\* A store whose commands table has neither of the two columns.
BareStores == {<<>>, <<LegacyRow(1, "ls", NULL)>>}

\* A session starts: on_mount has started the _start_sync worker.
NoTask == [state |-> "none", query |-> ""]
NoneShown == [seq |-> 0, query |-> ""]
NoSelection == [outcome |-> "none", index |-> NULL, command |-> NULL]
InitTui ==
  /\ _query = ""
  /\ _results = <<>>
  /\ _syncing = TRUE
  /\ _debounce_task = NoTask
  /\ workers = {}
  /\ syncWorker = "sync"
  /\ inputs = 0
  /\ dispatched = 0
  /\ shown = NoneShown
  /\ selected = NoSelection
  /\ _command_count = 0
  /\ empty_state = [display |-> TRUE, label |-> ""]
  /\ main_thread_calls = {}

InitStore(schemas, stores, providers, backends) ==
  /\ schema \in schemas
  /\ rows \in (IF schema = "none" THEN {<<>>} ELSE stores)
  /\ config \in {[max_results |-> DefaultMaxResults, tui_max_results |-> t] : t \in {1, DefaultTuiMaxResults}}
  /\ InitTui
  /\ now = 1
  /\ provider \in providers
  /\ backend \in (IF provider = "local" THEN backends ELSE {StubBackend})
  /\ lock = "none"
  /\ pc = [p \in Procs |-> "idle"]
  /\ fetched = [p \in Procs |-> <<>>]
  /\ vecs = [p \in Procs |-> <<>>]
  /\ txn = [p \in Procs |-> <<>>]
  /\ syncRet = [p \in Procs |-> NoSync]
  /\ syncCalls = 0
  /\ stale = [p \in Procs |-> FALSE]
  /\ clean = FALSE
  /\ retry = NoRetry
  /\ lastSearch = NoSearch
  /\ loads = [p \in Procs |-> "never"]

\* ------------------------------------------------------------ db.py actions
\* A commit by `who` changes the committed store: every other caller's fetch
\* is stale.
Committed(who) ==
  /\ stale' = [p \in Procs |-> IF p = who THEN stale[p] ELSE TRUE]
  /\ retry' = NoRetry
\* search() reads the store at one instant: the other operations are taken
\* before a search() call or after its caller has taken the outcome.
NotSearching == lastSearch = NoSearch /\ lastSearch' = NoSearch

\* init_db(): CREATE TABLE IF NOT EXISTS, then ALTER TABLE ADD COLUMN
\* embedding, whose error on a table that has the column is passed over.
\* The new column is NULL in every record; no other column is touched.
init_db ==
  /\ lock = "none"
  /\ schema' = Migrated(schema)
  /\ NotSearching
  /\ UNCHANGED loads
  /\ UNCHANGED <<rows, now, provider, backend, lock, syncVars>>

\* insert_command(command, directory): one INSERT, committed.  Every caller
\* runs init_db first (capture.py:19, cli.py:184), so the table exists.
insert_command(command, directory) ==
  /\ schema # "none"
  /\ lock = "none"
  /\ Len(rows) < MaxRows
  /\ rows' = Append(rows, NewRow(Len(rows) + 1, command, directory, now))
  /\ Committed("none")
  /\ clean' = FALSE
  /\ NotSearching
  /\ UNCHANGED loads
  /\ UNCHANGED <<schema, now, provider, backend, lock, pc, fetched, vecs, txn, syncRet, syncCalls>>

\* The clock advances.
Tick ==
  /\ now < MaxTime
  /\ now' = now + 1
  /\ NotSearching
  /\ UNCHANGED loads
  /\ UNCHANGED <<schema, rows, provider, backend, lock, syncVars>>

\* ------------------------------------------------------------------ sync()
\* sync() returns or raises: the caller's locals are dropped.
SyncEnds(p, outcome) ==
  /\ pc' = [pc EXCEPT ![p] = "idle"]
  /\ fetched' = [fetched EXCEPT ![p] = <<>>]
  /\ vecs' = [vecs EXCEPT ![p] = <<>>]
  /\ txn' = [txn EXCEPT ![p] = <<>>]
  /\ syncRet' = [syncRet EXCEPT ![p] = outcome]

\* load_config(); unembedded = get_unembedded_commands(); if not unembedded: return 0
SyncFetch(p) ==
  /\ pc[p] = "idle"
  /\ syncCalls < MaxSyncs
  /\ syncCalls' = syncCalls + 1
  /\ stale' = [stale EXCEPT ![p] = FALSE]
  /\ IF ~HasEmbeddedAt(schema)
     THEN SyncEnds(p, Raised("StoreIOError")) /\ UNCHANGED clean
     ELSE LET unembedded == get_unembedded_commands(rows)
          IN IF unembedded = <<>>
             THEN SyncEnds(p, Returned(0)) /\ clean' = TRUE
             ELSE /\ pc' = [pc EXCEPT ![p] = "fetched"]
                  /\ fetched' = [fetched EXCEPT ![p] = unembedded]
                  /\ UNCHANGED <<vecs, txn, syncRet, clean>>
  /\ NotSearching
  /\ UNCHANGED loads
  /\ UNCHANGED <<storeVars, retry>>

\* provider = get_provider(config.provider); embeddings = provider.embed(texts)
SyncEmbed(p) ==
  /\ pc[p] = "fetched"
  /\ \E up \in BOOLEAN :
       LET texts == [i \in 1..Len(fetched[p]) |-> fetched[p][i].command]
           got == embed(provider, backend, texts, up)
           failed == [valid |-> ~stale[p], set |-> fetched[p]]
       IN IF ~get_provider(provider).ok
          THEN SyncEnds(p, Raised("ValueError")) /\ retry' = failed /\ UNCHANGED loads
          ELSE IF got.status # "ok"
          THEN SyncEnds(p, Raised(got.status)) /\ retry' = failed /\ UNCHANGED loads
          ELSE /\ pc' = [pc EXCEPT ![p] = "embedded"]
               /\ vecs' = [vecs EXCEPT ![p] = got.vectors]
               /\ loads' = [loads EXCEPT ![p] = LoadsAfterEmbed(LocalProvider, @)]
               /\ UNCHANGED <<fetched, txn, syncRet, retry>>
  /\ NotSearching
  /\ UNCHANGED <<storeVars, syncCalls, stale, clean>>

\* ids = [r["id"] for r in unembedded]; the i-th pair of zip(ids, embeddings)
\* as the UPDATE mark_embedded executes for it
NextUpdateCrossed(unembedded, embeddings, i, at) ==
  [id |-> unembedded[i].id, at |-> at, blob |-> ToBlob(embeddings[Len(embeddings) + 1 - i])]
NextUpdate(unembedded, embeddings, i, at) ==
  [id |-> unembedded[i].id, at |-> at, blob |-> ToBlob(embeddings[i])]

\* mark_embedded: the next pair of zip(ids, embeddings) is written by one
\* UPDATE inside the connection's open transaction.  The first UPDATE takes
\* the write lock; on a table without the embedding column it fails, and
\* the connection is closed without a commit.
MarkNext(p) ==
  /\ pc[p] \in {"embedded", "marking"}
  /\ Len(txn[p]) < Len(fetched[p])
  /\ Len(txn[p]) < Len(vecs[p])
  /\ lock \in {"none", p}
  /\ LET i == Len(txn[p]) + 1
     IN IF schema # "current"
        THEN SyncEnds(p, Raised("StoreIOError")) /\ UNCHANGED lock
        ELSE /\ txn' = [txn EXCEPT ![p] = Append(@, NextUpdate(fetched[p], vecs[p], i, now))]
             /\ pc' = [pc EXCEPT ![p] = "marking"]
             /\ lock' = p
             /\ UNCHANGED <<fetched, vecs, syncRet>>
  /\ NotSearching
  /\ UNCHANGED loads
  /\ UNCHANGED <<schema, rows, now, provider, backend, syncCalls, stale, clean, retry>>

\* mark_embedded: another connection holds the write lock for longer than
\* the busy timeout; the UPDATE raises "database is locked".
MarkBusy(p) ==
  /\ pc[p] = "embedded"
  /\ lock \notin {"none", p}
  /\ SyncEnds(p, Raised("StoreIOError"))
  /\ NotSearching
  /\ UNCHANGED loads
  /\ UNCHANGED <<storeVars, syncCalls, stale, clean, retry>>

\* mark_embedded: conn.commit(); sync() returns len(unembedded)
MarkCommit(p) ==
  /\ pc[p] = "marking"
  /\ Len(txn[p]) = (IF Len(fetched[p]) < Len(vecs[p]) THEN Len(fetched[p]) ELSE Len(vecs[p]))
  /\ rows' = ApplyTxn(rows, txn[p])
  /\ lock' = "none"
  /\ SyncEnds(p, Returned(Len(fetched[p])))
  /\ Committed(p)
  /\ clean' = ~stale[p]
  /\ NotSearching
  /\ UNCHANGED loads
  /\ UNCHANGED <<schema, now, provider, backend, syncCalls>>

\* ---------------------------------------------------------------- search()
\* search(query, max_results): get_provider and the query's embedding come
\* first, then the store is read.  The set of the call's outcomes: an error
\* raised, or the commands loaded and the list returned.
SearchOutcomeSwallowed(status, query, max_results, commands, results) ==
  [status |-> "ok", query |-> query, k |-> max_results, commands |-> commands, results |-> results]
SearchOutcome(status, query, max_results, commands, results) ==
  [status |-> status, query |-> query, k |-> max_results, commands |-> commands, results |-> results]
SearchCall(table, layout, name, model, query, max_results) ==
  IF ~get_provider(name).ok
  THEN {SearchOutcome("ValueError", query, max_results, <<>>, <<>>)}
  ELSE {SearchOutcome(embed(name, model, <<query>>, FALSE).status, query, max_results, <<>>, <<>>)}
       \cup (IF embed(name, model, <<query>>, TRUE).status # "ok"
             THEN {}
             ELSE IF ~HasEmbedding(layout)
             THEN {SearchOutcome("StoreIOError", query, max_results, <<>>, <<>>)}
             ELSE UNION {{SearchOutcome(o.status, query, max_results, commands, o.results) :
                            o \in Scan(commands, embed(name, model, <<query>>, TRUE).vectors[1], max_results)} :
                          commands \in get_all_embedded_commands(table)})

\* The outcomes in which the query was embedded: the list returned, or the
\* error of the store read that follows the embedding.
QueryEmbedded(outcome) == outcome.status \in {"ok", "StoreIOError"}
search(query, max_results) ==
  /\ lastSearch = NoSearch
  /\ lastSearch' \in SearchCall(rows, schema, provider, backend, query, max_results)
  /\ loads' = [loads EXCEPT !["cli"] = IF QueryEmbedded(lastSearch') THEN LoadsAfterEmbed(LocalProvider, @) ELSE @]
  /\ UNCHANGED <<storeVars, syncVars>>

\* The caller of search() takes the outcome.
SearchReturns ==
  /\ lastSearch # NoSearch
  /\ lastSearch' = NoSearch
  /\ UNCHANGED <<storeVars, syncVars, loads>>

\* ------------------------------------------------------------------ tui.py
TuiInputs == {"", " ", "ls", "git"}
\* The app runs its handlers until self.exit is called.
Alive == selected = NoSelection
\* query.strip(), on the model's input texts
Strip(q) == IF q = " " THEN "" ELSE q

\* _recent_commands(): get_all_commands()[:20] as results of score 1.0; an
\* exception of the store read gives [].
RecentResult(r) ==
  [command |-> r.command, directory |-> OrEmpty(r.directory), timestamp |-> r.timestamp, similarity_score |-> Scale]
_recent_commandsEmbeddedOnly(table, layout) ==
  IF layout = "none" THEN {<<>>}
  ELSE {[i \in 1..Len(Slice(all, RecentLimit)) |-> RecentResult(all[i])] : all \in get_all_embedded_commands(table)}
_recent_commands(table, layout) ==
  IF ~HasEmbeddedAt(layout) THEN {<<>>}
  ELSE {[i \in 1..Len(Slice(all, RecentLimit)) |-> RecentResult(all[i])] : all \in get_all_commands(table)}

\* The try block of _run_search: the similarity search for a query with
\* text, the recent commands otherwise, [] on any exception.
OrNothing(outcome) == IF outcome.status = "ok" THEN outcome.results ELSE <<>>
WorkerOutcomes(query, table, layout, name, model, limit) ==
  IF Strip(query) # ""
  THEN {[results |-> OrNothing(o), embedded |-> QueryEmbedded(o)] : o \in SearchCall(table, layout, name, model, query, limit)}
  ELSE {[results |-> r, embedded |-> FALSE] : r \in _recent_commands(table, layout)}
WorkerResults(query, table, layout, name, model, limit) ==
  {o.results : o \in WorkerOutcomes(query, table, layout, name, model, limit)}

\* self._run_search(query): @work(thread=True) starts one more thread worker.
\* History kept with the worker: the number of the input event whose text it
\* searches (both callers pass the latest input's text), and whether the
\* initial sync() was still running when it was dispatched.
_run_search(query) ==
  /\ dispatched' = dispatched + 1
  /\ workers' = workers \cup {[seq |-> dispatched + 1, query |-> query, phase |-> "running", results |-> <<>>,
                              input |-> inputs, early |-> syncRet["tui"] = NoSync]}

\* on_search_input_changed: _query is set, a debounce task that is not done
\* is cancelled, and a new one is created for the event's value.
on_search_input_changedKeepsTask(value) ==
  /\ Alive
  /\ inputs < MaxInputs
  /\ value # _query
  /\ inputs' = inputs + 1
  /\ _query' = value
  /\ _debounce_task' = IF _debounce_task.state = "sleeping" THEN _debounce_task
                       ELSE [state |-> "sleeping", query |-> value]
  /\ UNCHANGED <<_results, _syncing, workers, syncWorker, dispatched, shown, selected, _command_count, empty_state, main_thread_calls>>
on_search_input_changed(value) ==
  /\ Alive
  /\ inputs < MaxInputs
  /\ value # _query
  /\ inputs' = inputs + 1
  /\ _query' = value
  /\ _debounce_task' = [state |-> "sleeping", query |-> value]
  /\ UNCHANGED <<_results, _syncing, workers, syncWorker, dispatched, shown, selected, _command_count, empty_state, main_thread_calls>>

\* _debounced_search: the sleep of 0.3 s is over and the task was not
\* cancelled; it calls _run_search(query).
_debounced_search ==
  /\ Alive
  /\ _debounce_task.state = "sleeping"
  /\ _debounce_task' = [_debounce_task EXCEPT !.state = "done"]
  /\ _run_search(_debounce_task.query)
  /\ UNCHANGED <<_query, _results, _syncing, syncWorker, inputs, shown, selected, _command_count, empty_state, main_thread_calls>>

\* A _run_search worker computes its result list from the store.
WorkerRuns(w) ==
  /\ Alive
  /\ w.phase = "running"
  /\ \E o \in WorkerOutcomes(w.query, rows, schema, provider, backend, config.max_results) :
       /\ workers' = (workers \ {w}) \cup {[w EXCEPT !.phase = "computed", !.results = o.results]}
       /\ loads' = [loads EXCEPT !["tui"] = IF o.embedded THEN LoadsAfterEmbed(LocalProvider, @) ELSE @]
  /\ UNCHANGED <<_query, _results, _syncing, _debounce_task, syncWorker, inputs, dispatched, shown, selected,
               _command_count, empty_state, main_thread_calls>>

\* results[:config.tui_max_results]
ClipNone(results, limit) == results
Clip(results, limit) == Slice(results, limit)
\* _update_results, for an empty list: the empty-state widget is displayed
\* with a text chosen by the input text of that moment; otherwise it is
\* hidden and keeps its text.
NoResultsLabel == "No results. Try a different query."
NoCommandsLabel == "No commands yet. Run some commands first, then come back!"
EmptyState(results, query, widget) ==
  IF results = <<>>
  THEN [display |-> TRUE, label |-> IF Strip(query) # "" THEN NoResultsLabel ELSE NoCommandsLabel]
  ELSE [widget EXCEPT !.display = FALSE]
\* call_from_thread(self._update_results, results): the main thread reads
\* the configuration, cuts the list to tui_max_results, publishes it and
\* sets the empty-state widget.
_update_results(w) ==
  /\ Alive
  /\ w.phase = "computed"
  /\ main_thread_calls' = main_thread_calls \cup {"load_config"}
  /\ _results' = Clip(w.results, config.tui_max_results)
  /\ empty_state' = EmptyState(_results', _query, empty_state)
  /\ shown' = [seq |-> w.seq, query |-> w.query]
  /\ workers' = workers \ {w}
  /\ UNCHANGED <<_query, _syncing, _debounce_task, syncWorker, inputs, dispatched, selected, _command_count>>

\* _start_sync: the worker's sync() call, step by step.
_start_sync ==
  /\ Alive
  /\ syncWorker = "sync"
  /\ syncRet["tui"] = NoSync
  /\ \/ SyncFetch("tui")
     \/ SyncEmbed("tui")
     \/ MarkNext("tui")
     \/ MarkCommit("tui")
  /\ UNCHANGED tuiVars

\* _refresh_count: count = len(get_all_commands()), 0 on an exception
_refresh_count(table, layout) == IF HasEmbeddedAt(layout) THEN Len(table) ELSE 0
\* _start_sync: sync() has returned or raised (synced = 0);
\* call_from_thread(self._after_sync, synced) runs on the main thread: it
\* clears _syncing, calls _refresh_count and starts the first search with
\* the input text of that moment.
_after_syncOnSuccess ==
  /\ Alive
  /\ syncWorker = "sync"
  /\ syncRet["tui"].status = "ok"
  /\ syncWorker' = "done"
  /\ _syncing' = FALSE
  /\ main_thread_calls' = main_thread_calls \cup {"get_all_commands"}
  /\ _command_count' = _refresh_count(rows, schema)
  /\ _run_search(_query)
  /\ UNCHANGED <<_query, _results, _debounce_task, inputs, shown, selected, empty_state>>
_after_sync ==
  /\ Alive
  /\ syncWorker = "sync"
  /\ syncRet["tui"] # NoSync
  /\ syncWorker' = "done"
  /\ _syncing' = FALSE
  /\ main_thread_calls' = main_thread_calls \cup {"get_all_commands"}
  /\ _command_count' = _refresh_count(rows, schema)
  /\ _run_search(_query)
  /\ UNCHANGED <<_query, _results, _debounce_task, inputs, shown, selected, empty_state>>

\* action_select: idx = list_view.index, None or a position from 0 on.
\* Nothing happens when idx is None, no list is published or idx is not a
\* position of the published list; otherwise _results[idx].command is
\* copied, printed and passed to self.exit.
SelectIndexes == {NULL} \cup {Some(i) : i \in 0..MaxRows}
SelectOutcomeUnchecked(idx, results) ==
  IF IsNull(idx) \/ results = <<>> THEN NoSelection
  ELSE IF idx[1] >= Len(results) THEN [outcome |-> "IndexError", index |-> idx, command |-> NULL]
  ELSE [outcome |-> "exit", index |-> idx, command |-> Some(results[idx[1] + 1].command)]
SelectOutcome(idx, results) ==
  IF IsNull(idx) \/ results = <<>> THEN NoSelection
  ELSE IF idx[1] >= Len(results) THEN NoSelection
  ELSE [outcome |-> "exit", index |-> idx, command |-> Some(results[idx[1] + 1].command)]
action_select(idx) ==
  /\ Alive
  /\ selected' = SelectOutcome(idx, _results)
  /\ UNCHANGED <<_query, _results, _syncing, _debounce_task, workers, syncWorker, inputs, dispatched, shown,
               _command_count, empty_state, main_thread_calls>>

\* --------------------------------------------------------- specifications
Queries == Texts
MaxResults == {-1, 0, 1, 2}
NoSession == UNCHANGED <<configVars, tuiVars>>
NoStore == UNCHANGED <<storeVars, syncVars, searchVars, providerVars, configVars>>
StoreRead == UNCHANGED <<storeVars, syncVars, searchVars, configVars>>

\* The store under its concurrent users: shell captures, init_db, and two
\* callers of sync() (the browser's worker thread and a CLI process).
InitStoreSpec ==
  /\ InitStore({"none", "legacy"}, LegacyStores, Providers, {StubBackend})
  /\ config.tui_max_results = DefaultTuiMaxResults
NextStore ==
  \/ init_db /\ NoSession
  \/ \E c \in Texts, d \in Dirs : insert_command(c, d) /\ NoSession
  \/ Tick /\ NoSession
  \/ \E p \in Procs : SyncFetch(p) /\ NoSession
  \/ \E p \in Procs : SyncEmbed(p) /\ NoSession
  \/ \E p \in Procs : MarkNext(p) /\ NoSession
  \/ \E p \in Procs : MarkBusy(p) /\ NoSession
  \/ \E p \in Procs : MarkCommit(p) /\ NoSession
SpecStore == InitStoreSpec /\ [][NextStore]_vars

\* One user of the store at a time, every deterministic backend over the
\* model's vectors, every query and result limit.
InitSearchSpec ==
  /\ InitStore({"none"}, {<<>>}, Providers, [Texts -> Vectors])
  /\ config.tui_max_results = DefaultTuiMaxResults
NextSearch ==
  \/ init_db /\ NoSession
  \/ \E c \in Texts, d \in Dirs : insert_command(c, d) /\ NoSession
  \/ SyncFetch("cli") /\ NoSession
  \/ SyncEmbed("cli") /\ NoSession
  \/ MarkNext("cli") /\ NoSession
  \/ MarkCommit("cli") /\ NoSession
  \/ \E q \in Queries, k \in MaxResults : search(q, k) /\ NoSession
  \/ SearchReturns /\ NoSession
SpecSearch == InitSearchSpec /\ [][NextSearch]_vars

\* One caller at a time on a new or a legacy store, under every provider
\* setting: every operation of the store, sync() and search().
InitOpsSpec ==
  /\ InitStore({"none", "legacy"}, LegacyStores, KnownProviders \cup {"bogus"}, {StubBackend})
  /\ config.tui_max_results = DefaultTuiMaxResults
NextOps ==
  \/ init_db /\ NoSession
  \/ \E c \in Texts, d \in Dirs : insert_command(c, d) /\ NoSession
  \/ SyncFetch("cli") /\ NoSession
  \/ SyncEmbed("cli") /\ NoSession
  \/ MarkNext("cli") /\ NoSession
  \/ MarkCommit("cli") /\ NoSession
  \/ \E q \in Queries, k \in MaxResults : search(q, k) /\ NoSession
  \/ SearchReturns /\ NoSession
SpecOps == InitOpsSpec /\ [][NextOps]_vars

\* init_db on every store it can meet (none, or a commands table with or
\* without the embedded_at and embedding columns), then one caller's inserts,
\* sync() and search() under the local provider.
InitMigrateSpec ==
  /\ \/ InitStore({"none", "legacy"}, LegacyStores, {"local"}, {StubBackend})
     \/ InitStore({"bare"}, BareStores, {"local"}, {StubBackend})
  /\ config.tui_max_results = DefaultTuiMaxResults
NextMigrate ==
  \/ init_db /\ NoSession
  \/ \E c \in Texts, d \in Dirs : insert_command(c, d) /\ NoSession
  \/ SyncFetch("cli") /\ NoSession
  \/ SyncEmbed("cli") /\ NoSession
  \/ MarkNext("cli") /\ NoSession
  \/ MarkCommit("cli") /\ NoSession
  \/ \E q \in Queries : search(q, DefaultMaxResults) /\ NoSession
  \/ SearchReturns /\ NoSession
SpecMigrate == InitMigrateSpec /\ [][NextMigrate]_vars

\* One caller under the local provider while the clock advances: records
\* captured at different times, sync(), and searches that read them.
InitReadsSpec == InitOpsSpec /\ provider = "local"
NextReads ==
  \/ init_db /\ NoSession
  \/ \E c \in Texts, d \in Dirs : insert_command(c, d) /\ NoSession
  \/ Tick /\ NoSession
  \/ SyncFetch("cli") /\ NoSession
  \/ SyncEmbed("cli") /\ NoSession
  \/ MarkNext("cli") /\ NoSession
  \/ MarkCommit("cli") /\ NoSession
  \/ \E q \in Queries : search(q, DefaultMaxResults) /\ NoSession
  \/ SearchReturns /\ NoSession
SpecReads == InitReadsSpec /\ [][NextReads]_vars

\* One interactive session on a store that holds an embedded record of
\* unknown directory and a newer unembedded one, or nothing.
EmbeddedRecord(id, command, model) ==
  UpdateRow([NewRow(id, command, "/repo", 0) EXCEPT !.directory = NULL], 1, ToBlob(model[command]))
TuiStores == {<<>>, <<EmbeddedRecord(1, "ls", StubBackend), NewRow(2, "git", "/repo", 1)>>}
InitTuiSpec == InitStore({"current"}, TuiStores, Providers, {StubBackend})
NextTui ==
  \/ \E v \in TuiInputs : on_search_input_changed(v) /\ NoStore
  \/ _debounced_search /\ NoStore
  \/ \E w \in workers : WorkerRuns(w) /\ StoreRead
  \/ \E w \in workers : _update_results(w) /\ NoStore
  \/ _start_sync /\ UNCHANGED configVars
  \/ _after_sync /\ NoStore
SpecTui == InitTuiSpec /\ [][NextTui]_vars

\* One interactive session under the local provider, with the Enter key.
InitSelectSpec == InitTuiSpec /\ provider = "local"
NextSelect ==
  \/ \E v \in TuiInputs : on_search_input_changed(v) /\ NoStore
  \/ _debounced_search /\ NoStore
  \/ \E w \in workers : WorkerRuns(w) /\ StoreRead
  \/ \E w \in workers : _update_results(w) /\ NoStore
  \/ _start_sync /\ UNCHANGED configVars
  \/ _after_sync /\ NoStore
  \/ \E idx \in SelectIndexes : action_select(idx) /\ NoStore
SpecSelect == InitSelectSpec /\ [][NextSelect]_vars

\* ------------------------------------------------------------------ claims
PublishedBy(w) == shown' # shown /\ shown' = [seq |-> w.seq, query |-> w.query]
Quiescent == syncWorker = "done" /\ _debounce_task.state # "sleeping" /\ workers = {}
SyncReturnsOk(p) == pc[p] = "marking" /\ pc'[p] = "idle" /\ syncRet'[p].status = "ok"
SyncStarts == syncCalls' = syncCalls + 1
BackendErrors == {"ValueError", "NotImplementedError", "BackendUnavailableError"}
Searched == lastSearch.status # "none"
NoEmbeddedRecord == \A i \in 1..Len(rows) : ~EmbeddedRow(rows[i])
Listed(id, list) == \E j \in 1..Len(list) : list[j].id = id
ScoreOf(cmd, query) == Round4(Cosine(FromBlob(cmd.embedding[1]), backend[query]))

\* C1: generation discard.  When a query A was superseded by a query B,
\* the list of A's search is never published once the list of B's search
\* (dispatched later, for another text) is the published one.
C1_GenerationDiscard ==
  [][\A w \in workers :
       PublishedBy(w) => ~(shown.seq > w.seq /\ Strip(shown.query) # Strip(w.query))]_vars

\* C2: convergence.  Once the initial sync is over, no debounce timer is
\* pending and every dispatched worker has completed, the published list is
\* the one computed for the last input text.
C2_ConvergesToLatest == Quiescent => Strip(shown.query) = Strip(_query)

\* C3: in every committed state of the store (all a concurrent reader can
\* observe, also while mark_embedded runs) a record's embedding is non-null
\* iff its embedded_at is non-null.
C3_EmbeddingIffEmbeddedAt ==
  schema = "current" => \A i \in 1..Len(rows) : IsNull(rows[i].embedding) <=> IsNull(rows[i].embedded_at)

\* C4: sync() is idempotent.  After a sync() that returned successfully,
\* with no record inserted since it fetched, the next sync() returns 0 and
\* leaves every record unchanged.
C4_SyncIdempotent ==
  [][(clean /\ SyncStarts) =>
       /\ rows' = rows
       /\ schema' = schema
       /\ \E p \in Procs :
            /\ pc[p] = "idle" /\ pc'[p] = "idle" /\ syncRet'[p] = Returned(0)
            /\ \A q \in Procs \ {p} : pc'[q] = pc[q] /\ syncRet'[q] = syncRet[q]]_vars
\* A sync() that embedded records has returned, and the sync() called after it returned 0.
C4_Witness ==
  /\ clean
  /\ syncRet["tui"].status = "ok" /\ syncRet["tui"].count > 0
  /\ syncRet["cli"] = Returned(0) /\ ~stale["cli"]

\* C5: when the backend call of sync() fails, the error reaches the caller
\* and the store is unchanged; the next sync(), with nothing committed in
\* between, fetches exactly the rows the failed one had fetched.
C5_BackendFailureRetries ==
  [][/\ \A p \in Procs : (pc[p] = "fetched" /\ pc'[p] = "idle") =>
          /\ syncRet'[p].status \in BackendErrors
          /\ rows' = rows
          /\ schema' = schema
     /\ (retry.valid /\ SyncStarts) =>
          \E p \in Procs : pc[p] = "idle" /\ pc'[p] = "fetched" /\ fetched'[p] = retry.set]_vars
\* A caller whose sync() failed in the backend is in its next sync(), holding the same rows.
C5_Witness ==
  \E p \in Procs :
    /\ syncRet[p].status = "BackendUnavailableError"
    /\ pc[p] = "fetched"
    /\ retry.valid /\ fetched[p] = retry.set /\ Len(fetched[p]) >= 1

\* C6: when sync() returns successfully, every record it had fetched as
\* unembedded has a non-null embedded_at and a non-null embedding of the
\* backend's dimensionality, and get_unembedded_commands() does not return it.
C6_SyncEmbedsFetched ==
  [][\A p \in Procs : SyncReturnsOk(p) =>
       \A i \in 1..Len(fetched[p]) :
         LET id == fetched[p][i].id
         IN /\ id \in 1..Len(rows')
            /\ ~IsNull(rows'[id].embedded_at)
            /\ ~IsNull(rows'[id].embedding)
            /\ Len(FromBlob(rows'[id].embedding[1])) = Dim
            /\ ~Listed(id, get_unembedded_commands(rows'))]_vars
\* A sync() of two unembedded records has returned.
C6_Witness ==
  /\ \E p \in Procs : syncRet[p].status = "ok" /\ syncRet[p].count >= 2
  /\ Len(rows) >= 2
  /\ \A i \in 1..Len(rows) : EmbeddedRow(rows[i]) /\ ~UnembeddedRow(rows[i])

\* C7: an inserted record is returned by get_unembedded_commands(), with a
\* null embedding, and stays so through every step that is not the
\* successful return of a sync(): init_db, inserts, search() and its reads.
C7_UnembeddedUntilSync ==
  [][(\A p \in Procs : ~SyncReturnsOk(p)) =>
       /\ Len(rows') >= Len(rows)
       /\ \A i \in 1..Len(rows) :
            (IsNull(rows[i].embedded_at) /\ IsNull(rows[i].embedding)) =>
              rows'[i] = rows[i] /\ Listed(rows[i].id, get_unembedded_commands(rows'))
       /\ \A i \in (Len(rows) + 1)..Len(rows') :
            IsNull(rows'[i].embedding) /\ Listed(rows'[i].id, get_unembedded_commands(rows'))]_vars
\* A search() has returned results while an inserted record is still unembedded.
C7_Witness ==
  /\ lastSearch.status = "ok" /\ Len(lastSearch.results) >= 1
  /\ \E i \in 1..Len(rows) : UnembeddedRow(rows[i]) /\ IsNull(rows[i].embedding) /\ ~IsNull(rows[i].directory)

\* C8: for max_results k >= 1, search returns at most k results, in
\* non-increasing order of similarity_score.
C8_AtMostKSorted ==
  (lastSearch.status = "ok" /\ lastSearch.k >= 1) =>
    /\ Len(lastSearch.results) <= lastSearch.k
    /\ \A i, j \in 1..Len(lastSearch.results) :
         i < j => lastSearch.results[i].similarity_score >= lastSearch.results[j].similarity_score
\* Two results of different scores, the better one loaded second.
C8_Witness ==
  /\ lastSearch.status = "ok" /\ lastSearch.k = 2 /\ Len(lastSearch.results) = 2
  /\ lastSearch.results[1].similarity_score > lastSearch.results[2].similarity_score
  /\ ScoreOf(lastSearch.commands[2], lastSearch.query) > ScoreOf(lastSearch.commands[1], lastSearch.query)

\* C9 as claimed: on a store without an embedded record search returns []
\* and raises no error, whatever the provider setting.
C9_EmptyStoreNoError ==
  (Searched /\ NoEmbeddedRecord) => (lastSearch.status = "ok" /\ lastSearch.results = <<>>)
\* C9 as amended: on a store without an embedded record, search raises the
\* error of get_provider or of the query's embedding when that fails, the
\* store's error when the commands table or its embedding column is
\* missing, and otherwise returns [].
C9_EmptyStoreAmended ==
  (Searched /\ NoEmbeddedRecord) =>
    IF provider \notin KnownProviders THEN lastSearch.status = "ValueError"
    ELSE IF provider # "local" THEN lastSearch.status = "NotImplementedError"
    ELSE \/ lastSearch.status = "BackendUnavailableError"
         \/ schema # "current" /\ lastSearch.status = "StoreIOError"
         \/ schema = "current" /\ lastSearch.status = "ok" /\ lastSearch.results = <<>>
\* search() returned [] on a store whose records were never synced.
C9_Witness ==
  /\ lastSearch.status = "ok" /\ lastSearch.results = <<>>
  /\ Len(rows) >= 1 /\ NoEmbeddedRecord

\* C10 as claimed: searching with the exact text of a stored, embedded
\* command returns that command first, with a score >= every other one's.
ExactTextStored == \E i \in 1..Len(lastSearch.commands) : lastSearch.commands[i].command = lastSearch.query
C10_ExactTextRanksFirst ==
  (lastSearch.status = "ok" /\ lastSearch.k >= 1 /\ ExactTextStored) =>
    /\ lastSearch.results # <<>>
    /\ lastSearch.results[1].command = lastSearch.query
    /\ \A i \in 1..Len(lastSearch.commands) :
         lastSearch.results[1].similarity_score >= ScoreOf(lastSearch.commands[i], lastSearch.query)
\* C10 as amended: the first result has the score of the command with the
\* query's text, which is >= the score of every stored command; it is that
\* command unless a stored command of another text has the same score.
C10_ExactTextAmended ==
  (lastSearch.status = "ok" /\ lastSearch.k >= 1 /\ ExactTextStored) =>
    /\ lastSearch.results # <<>>
    /\ \A i \in 1..Len(lastSearch.commands) :
         /\ lastSearch.results[1].similarity_score >= ScoreOf(lastSearch.commands[i], lastSearch.query)
         /\ lastSearch.commands[i].command = lastSearch.query =>
              ScoreOf(lastSearch.commands[i], lastSearch.query) = lastSearch.results[1].similarity_score
    /\ \/ lastSearch.results[1].command = lastSearch.query
       \/ \E i \in 1..Len(lastSearch.commands) :
            /\ lastSearch.commands[i].command # lastSearch.query
            /\ ScoreOf(lastSearch.commands[i], lastSearch.query) = lastSearch.results[1].similarity_score
\* The command with the query's text is first, ahead of a stored command of a lower score.
C10_Witness ==
  /\ lastSearch.status = "ok" /\ lastSearch.k >= 1 /\ Len(lastSearch.commands) = 2
  /\ lastSearch.results[1].command = lastSearch.query
  /\ \E i \in 1..2 :
       /\ lastSearch.commands[i].command # lastSearch.query
       /\ ScoreOf(lastSearch.commands[i], lastSearch.query) < lastSearch.results[1].similarity_score

\* C11: in the result of search, records of equal similarity come in the
\* order in which get_all_embedded_commands() returned them: the returned
\* list is the list of some choice of loaded records in which every two
\* records of equal similarity keep their order of loading.
EqualSim(a, b) == SimKeyLE(a, b) /\ SimKeyLE(b, a)
InStoreOrder(commands, query_vec, results) ==
  LET sims == Similarities(commands, query_vec)
  IN \E top \in [1..Len(results) -> 1..Len(commands)] :
       /\ \A i, j \in 1..Len(results) : i # j => top[i] # top[j]
       /\ results = ResultList(commands, sims, top)
       /\ \A i, j \in 1..Len(results) :
            (i < j /\ EqualSim(sims[top[i]], sims[top[j]])) => top[i] < top[j]
C11_TiesInStoreOrder ==
  (lastSearch.status = "ok" /\ Len(lastSearch.results) <= Len(lastSearch.commands)) =>
    InStoreOrder(lastSearch.commands, backend[lastSearch.query], lastSearch.results)

\* C12: for max_results <= 0 search raises an error or returns [].
C12_NonPositiveLimit ==
  (lastSearch.status = "ok" /\ lastSearch.k <= 0) => lastSearch.results = <<>>

\* C13: in a session no search is dispatched to a worker before the initial
\* sync() has returned or raised.
C13_SyncBeforeFirstSearch == dispatched >= 1 => syncRet["tui"] # NoSync

\* The session's initial sync() raised.
SyncFailed == syncRet["tui"].status \notin {"none", "ok"}
\* The result lists search(query, max_results) has over the embedded records.
ServedFromEmbedded(query) ==
  UNION {{o.results : o \in Scan(commands, backend[query], config.max_results)} :
           commands \in get_all_embedded_commands(rows)}
\* After a failed sync() the session goes on: _after_sync can run, and when
\* it has run, _syncing is cleared and the initial search was dispatched.
SessionGoesOn ==
  /\ syncWorker = "sync" => ENABLED (_after_sync /\ NoStore)
  /\ syncWorker = "done" => (~_syncing /\ dispatched >= 1)
\* C14 as claimed: after a failed initial sync() the session goes on and the
\* list computed for a query with text dispatched after it is search's list
\* over the already-embedded records.
C14_FailedSyncServesQueries ==
  SyncFailed =>
    /\ SessionGoesOn
    /\ \A w \in workers : (w.phase = "computed" /\ ~w.early /\ Strip(w.query) # "") =>
         w.results \in ServedFromEmbedded(w.query)
\* C14 as amended: after a failed initial sync() the session goes on; the
\* empty query lists the recent records; a query with text gets [] while the
\* provider fails (always, for a provider that is not the local one) and
\* search's list over the already-embedded records when it works.
C14_FailedSyncKeepsSession ==
  SyncFailed =>
    /\ SessionGoesOn
    /\ \A w \in workers : (w.phase = "computed" /\ ~w.early) =>
         IF Strip(w.query) = "" THEN w.results \in _recent_commands(rows, schema)
         ELSE IF provider # "local" THEN w.results = <<>>
         ELSE w.results \in ServedFromEmbedded(w.query) \cup {<<>>}
\* After a failed sync() a worker has computed a list with an embedded record for a query with text.
C14_Witness ==
  /\ SyncFailed /\ syncWorker = "done"
  /\ \E w \in workers : w.phase = "computed" /\ ~w.early /\ Strip(w.query) # "" /\ w.results # <<>>

\* C15: debounce.  When an input supersedes an input whose debounce timer
\* is still pending (its delay has not elapsed), no search was dispatched
\* for the superseded input.
C15_SupersededNeverSearched ==
  [][(inputs' = inputs + 1 /\ _debounce_task.state = "sleeping") =>
       \A w \in workers : w.input # inputs]_vars

\* The list holds the RecentLimit newest records of the table, embedded or
\* not, newest first.
MostRecent(results, table) ==
  /\ Len(results) = (IF Len(table) < RecentLimit THEN Len(table) ELSE RecentLimit)
  /\ \A i, j \in 1..Len(results) : i < j => results[i].timestamp >= results[j].timestamp
  /\ \E p \in IndexOrders(Len(table)) :
       /\ \A i \in 1..Len(results) :
            /\ results[i].command = table[p[i]].command
            /\ results[i].timestamp = table[p[i]].timestamp
       /\ \A k \in (Len(results) + 1)..Len(table) : table[p[k]].timestamp <= results[Len(results)].timestamp
\* The worker w has computed its list in this step, as v.
Computes(w, v) == v.seq = w.seq /\ w.phase = "running" /\ v.phase = "computed"
\* C16: a worker whose query is empty or blank computes the list of the most
\* recent records, newest first, embedded or not, whatever the provider (it
\* makes no backend call), and that list, clipped, is what is published; a
\* worker whose query has text computes search's list over the embedded
\* records, or [] when search raises.
C16_EmptyQueryListsRecent ==
  [][/\ \A w \in workers : \A v \in workers' : Computes(w, v) =>
          IF Strip(w.query) = "" THEN MostRecent(v.results, rows)
          ELSE IF provider # "local" THEN v.results = <<>>
          ELSE v.results \in ServedFromEmbedded(w.query) \cup {<<>>}
     /\ \A w \in workers : (PublishedBy(w) /\ Strip(w.query) = "") =>
          /\ MostRecent(w.results, rows)
          /\ _results' = Slice(w.results, config.tui_max_results)]_vars
\* Under a provider that cannot embed, the list published for the empty query
\* has the newer, unembedded record ahead of the older, embedded one.
C16_Witness ==
  /\ provider # "local"
  /\ shown.seq >= 1 /\ Strip(shown.query) = ""
  /\ Len(_results) = 2
  /\ _results[1].command = "git" /\ _results[2].command = "ls"
  /\ _results[1].timestamp > _results[2].timestamp

\* C17: in every state of a session _results has at most tui_max_results
\* entries, and a published list is a prefix of the list its worker computed.
IsPrefix(s, t) == Len(s) <= Len(t) /\ \A i \in 1..Len(s) : s[i] = t[i]
C17_PublishedClipped ==
  [][/\ Len(_results') <= config'.tui_max_results
     /\ \A w \in workers : PublishedBy(w) => IsPrefix(_results', w.results)]_vars
\* The published list is the one newest record: its worker had computed two.
C17_Witness ==
  /\ config.tui_max_results = 1 /\ Len(_results) = 1
  /\ shown.seq >= 1 /\ Strip(shown.query) = ""
  /\ Len(rows) = 2 /\ _results[1].command = "git"

\* Selecting with no index, with no published entry or with an index that
\* is not a position of the published list does nothing.
SelectNoOps ==
  \A idx \in SelectIndexes :
    (IsNull(idx) \/ _results = <<>> \/ idx[1] \notin 0..(Len(_results) - 1)) =>
      SelectOutcome(idx, _results) = NoSelection
\* C18: selecting is a no-op (nothing copied or printed, no exit, no error)
\* without an index, without published entries or with an index outside the
\* published list; the app exits only with the command of the published
\* list's entry at the index, and leaves the session's state as it was.
C18_SelectInRangeOnly ==
  [][/\ SelectNoOps /\ SelectNoOps'
     /\ selected' # selected =>
          /\ selected = NoSelection /\ selected'.outcome = "exit"
          /\ \E i \in 0..(Len(_results) - 1) :
               selected'.index = Some(i) /\ selected'.command = Some(_results[i + 1].command)
          /\ UNCHANGED <<_query, _results, _syncing, _debounce_task, workers, syncWorker, inputs, dispatched, shown>>]_vars
\* The second entry of a published list of two was selected.
C18_Witness ==
  /\ selected.outcome = "exit" /\ selected.index = Some(1)
  /\ Len(_results) = 2 /\ selected.command = Some(_results[2].command)

\* C19: a process loads the local model at most once, however many sync()
\* and search() calls it makes.
C19_ModelLoadedOnce == \A p \in Procs : loads[p] # "again"

\* The configured provider name is none of the registered ones.
UnknownProvider == provider \notin KnownProviders
\* The one caller's sync() returns or raises in this step.
SyncEndsCli == pc'["cli"] = "idle" /\ (pc["cli"] # "idle" \/ SyncStarts)
\* A search() call is made in this step.
SearchCalled == lastSearch = NoSearch /\ lastSearch' # NoSearch
StoreKept == rows' = rows /\ schema' = schema
\* C20 as claimed: under an unknown provider name every sync() and every
\* search() raises the unknown-provider error, whose message lists the valid
\* names, and leaves the store unchanged.
C20_UnknownProviderAlwaysFails ==
  [][UnknownProvider =>
       /\ get_provider(provider).available = KnownProviders
       /\ SyncEndsCli => (syncRet'["cli"].status = "ValueError" /\ StoreKept)
       /\ SearchCalled => (lastSearch'.status = "ValueError" /\ StoreKept)]_vars
\* C20 as amended: under an unknown provider name every search() raises the
\* unknown-provider error; sync() raises it when it has fetched unembedded
\* records, returns 0 when there are none and raises the store's error when
\* the commands table is missing; no call changes the store or gets to
\* embed anything.
C20_UnknownProviderFailsAtConstruction ==
  [][UnknownProvider =>
       /\ get_provider(provider).available = KnownProviders
       /\ pc'["cli"] \notin {"embedded", "marking"}
       /\ SyncEndsCli =>
            /\ StoreKept
            /\ IF pc["cli"] # "idle" THEN syncRet'["cli"].status = "ValueError"
               ELSE IF schema = "none" THEN syncRet'["cli"].status = "StoreIOError"
               ELSE get_unembedded_commands(rows) = <<>> /\ syncRet'["cli"] = Returned(0)
       /\ SearchCalled => (lastSearch'.status = "ValueError" /\ StoreKept)]_vars
\* Under an unknown provider name a sync() with a record to embed and a search() have both raised the error.
C20_Witness ==
  /\ UnknownProvider
  /\ syncRet["cli"].status = "ValueError" /\ lastSearch.status = "ValueError"
  /\ \E i \in 1..Len(rows) : UnembeddedRow(rows[i])

\* The providers whose embed is not implemented.
StubProviders == KnownProviders \ {"local"}
\* C21: under the openai, anthropic or ollama provider every embed call
\* raises NotImplementedError; a sync() that fetched unembedded records and
\* every search() raise it, no record is changed, no vector is computed and
\* the local model is never loaded.
C21_StubProvidersFail ==
  [][(provider \in StubProviders) =>
       /\ \A up \in BOOLEAN, t \in Texts : embed(provider, backend, <<t>>, up).status = "NotImplementedError"
       /\ (pc["cli"] = "fetched" /\ pc'["cli"] # "fetched") =>
            (pc'["cli"] = "idle" /\ syncRet'["cli"].status = "NotImplementedError")
       /\ SearchCalled => (lastSearch'.status = "NotImplementedError" /\ lastSearch'.results = <<>>)
       /\ \A i \in 1..Len(rows) : rows'[i] = rows[i]
       /\ \A i \in 1..Len(rows') : IsNull(rows'[i].embedding)
       /\ <<vecs', txn', loads'>> = <<vecs, txn, loads>>]_vars
\* Under the anthropic provider a sync() of an unembedded record and a
\* search() have both raised NotImplementedError.
C21_Witness ==
  /\ provider = "anthropic"
  /\ syncRet["cli"].status = "NotImplementedError"
  /\ lastSearch.status = "NotImplementedError"
  /\ \E i \in 1..Len(rows) : UnembeddedRow(rows[i])

\* mark_embedded(ids, embeddings) returns in this step, called by p's sync().
MarkEmbeddedReturns(p) == pc[p] = "marking" /\ pc'[p] = "idle"
\* C22: the records are append-only over init_db, insert_command, sync(),
\* mark_embedded and search(): no record is removed, ids are unique and
\* increase in creation order, id, command, directory and timestamp of a
\* record never change, and a record changes at all only in a mark_embedded
\* call that was given its id.
C22_AppendOnly ==
  [][/\ Len(rows') >= Len(rows)
     /\ \A i \in 1..Len(rows) : Projection(rows'[i]) = Projection(rows[i])
     /\ \A i, j \in 1..Len(rows') : i < j => rows'[i].id < rows'[j].id
     /\ \A i \in 1..Len(rows) :
          rows'[i] # rows[i] =>
            \E p \in Procs : MarkEmbeddedReturns(p) /\ Listed(rows[i].id, fetched[p])]_vars
\* A sync() has embedded the second record and left the first, which it had
\* not fetched, as it was; a search() has returned since.
C22_Witness ==
  /\ Len(rows) = 2
  /\ rows[1] = LegacyRow(1, "ls", Some(1))
  /\ EmbeddedRow(rows[2]) /\ ~UnembeddedRow(rows[2])
  /\ syncRet["cli"] = Returned(1)
  /\ lastSearch.status = "ok"

\* The list holds each record of S once and nothing else, newest first.
EachOnceNewestFirst(list, S) ==
  /\ \A r \in S : Cardinality({j \in 1..Len(list) : list[j] = r}) = 1
  /\ \A j \in 1..Len(list) : list[j] \in S
  /\ \A j \in 1..(Len(list) - 1) : list[j].timestamp >= list[j + 1].timestamp
\* C23: get_all_embedded_commands() returns the records whose embedding is
\* non-null, each once, newest first by timestamp; get_all_commands() returns
\* every record, each once, in the same order.
C23_ReadsAreExact ==
  /\ schema = "current" =>
       LET lists == get_all_embedded_commands(rows)
       IN /\ lists # {}
          /\ \A list \in lists :
               EachOnceNewestFirst(list, {rows[i] : i \in {k \in 1..Len(rows) : ~IsNull(rows[k].embedding)}})
  /\ schema # "none" =>
       LET lists == get_all_commands(rows)
       IN /\ lists # {}
          /\ \A list \in lists : EachOnceNewestFirst(list, {rows[i] : i \in 1..Len(rows)})
  /\ lastSearch.status = "ok" =>
       EachOnceNewestFirst(lastSearch.commands, {rows[i] : i \in {k \in 1..Len(rows) : ~IsNull(rows[k].embedding)}})
\* An older record whose embedded_at is set and whose embedding is null, and
\* a newer embedded record: the first read returns the newer one only, the
\* second both, the newer one first.
C23_Witness ==
  /\ schema = "current" /\ Len(rows) = 2
  /\ ~IsNull(rows[1].embedded_at) /\ IsNull(rows[1].embedding)
  /\ ~IsNull(rows[2].embedding) /\ rows[2].timestamp > rows[1].timestamp
  /\ get_all_embedded_commands(rows) = {<<rows[2]>>}
  /\ get_all_commands(rows) = {<<rows[2], rows[1]>>}
  /\ lastSearch.status = "ok" /\ lastSearch.commands = <<rows[2]>>

\* Every entry of the list is made from a stored record and its directory
\* is a string: the stored one, or "" when the stored one is NULL.
DirectoriesAreStrings(results) ==
  \A j \in 1..Len(results) :
    /\ results[j].directory \in Dirs \cup {""}
    /\ \E i \in 1..Len(rows) :
         /\ rows[i].command = results[j].command /\ rows[i].timestamp = results[j].timestamp
         /\ IF IsNull(rows[i].directory) THEN results[j].directory = ""
            ELSE results[j].directory = rows[i].directory[1]
\* C24: in every result list, computed by a search or for the empty query
\* and published or not, each result's directory is a string, "" when the
\* stored directory is NULL, never NULL.
C24_DirectoryNeverNull ==
  /\ DirectoriesAreStrings(_results)
  /\ \A w \in workers : DirectoriesAreStrings(w.results)
\* The published list of recent commands and the computed list of a search
\* both hold a record whose stored directory is NULL.
C24_Witness ==
  /\ Strip(shown.query) = ""
  /\ \E j \in 1..Len(_results) : _results[j].directory = ""
  /\ \E w \in workers :
       /\ w.phase = "computed" /\ Strip(w.query) # ""
       /\ \E j \in 1..Len(w.results) : w.results[j].directory = ""
  /\ \E i \in 1..Len(rows) : IsNull(rows[i].directory)

\* init_db has run on the store: it is the one step that changes the layout.
init_dbHasRun == schema \in {"unstamped", "current"}
\* C25: init_db keeps every record of a store that existed before, with or
\* without the embedded_at and embedding columns; after it sync() and
\* search() work on the store (neither raises the store's error); running
\* init_db again changes nothing.
C25_MigrationKeepsStoreUsable ==
  [][/\ schema' # schema => rows' = rows
     /\ init_dbHasRun =>
          /\ Migrated(schema) = schema
          /\ SyncEndsCli => syncRet'["cli"].status # "StoreIOError"
          /\ SearchCalled => lastSearch'.status # "StoreIOError"]_vars

\* C26: when the published list is empty, the condition displayed tells "no
\* data yet" from "no matches for the query": a list computed for a query
\* with text on a store without embedded records is shown with the
\* no-data-yet text, and the text goes with the query the list was computed
\* for (the no-matches text only with a query that has text, the
\* no-data-yet text with the empty query).
C26_NoDataDistinguishable ==
  (shown # NoneShown /\ _results = <<>>) =>
    /\ empty_state.display
    /\ (Strip(shown.query) # "" /\ NoEmbeddedRecord) => empty_state.label = NoCommandsLabel
    /\ empty_state.label = NoResultsLabel => Strip(shown.query) # ""
    /\ Strip(shown.query) = "" => empty_state.label = NoCommandsLabel

\* The calls that read or write the store or run the model.
StoreOrModelCalls == {"sync", "search", "get_all_commands", "get_unembedded_commands", "mark_embedded", "embed"}
\* C28: the control thread performs no store I/O and no model inference:
\* no handler that runs on the main thread calls sync, search,
\* get_all_commands or the embedding backend.
C28_MainThreadNeverTouchesStore == main_thread_calls \cap StoreOrModelCalls = {}

\* C27: search() swallows no error.  It returns a list only under a provider
\* that embeds and on a table it can read; when get_provider, the backend
\* call or the store read fails, the outcome is that error and no list, not
\* even an empty one.
C27_SearchPropagatesErrors ==
  Searched =>
    /\ lastSearch.status = "ok" => (provider = "local" /\ HasEmbedding(schema))
    /\ provider \notin KnownProviders => lastSearch.status = "ValueError"
    /\ provider \in StubProviders => lastSearch.status = "NotImplementedError"
    /\ (provider = "local" /\ ~HasEmbedding(schema)) =>
         lastSearch.status \in {"BackendUnavailableError", "StoreIOError"}
    /\ lastSearch.status # "ok" =>
         /\ lastSearch.status \in BackendErrors \cup {"StoreIOError"}
         /\ lastSearch.results = <<>> /\ lastSearch.commands = <<>>
\* A search() whose query was embedded has raised the error of the store
\* read, on a table that holds a record and lacks the embedding column.
C27_Witness ==
  /\ lastSearch.status = "StoreIOError"
  /\ provider = "local" /\ schema = "legacy" /\ Len(rows) >= 1

\* The number of records that are unembedded before the step and embedded after it.
NewlyEmbedded == Cardinality({i \in 1..Len(rows) : UnembeddedRow(rows[i]) /\ ~UnembeddedRow(rows'[i])})
\* C29: the value a successful sync() returns is the number of records that
\* its commit changed from unembedded to embedded, also when two sync()
\* calls, or a sync() and inserts, interleave.
C29_CountIsRecordsEmbedded ==
  [][\A p \in Procs : SyncReturnsOk(p) => syncRet'[p].count = NewlyEmbedded]_vars

\* C30: when sync() returns successfully, each record it fetched holds the
\* vector the backend computed for that record's own command text: the
\* i-th vector of the backend call is written to the id of the i-th fetched
\* record, and to no other.
C30_VectorOfOwnText ==
  [][\A p \in Procs : SyncReturnsOk(p) =>
       \A i \in 1..Len(fetched[p]) :
         LET id == fetched[p][i].id
         IN /\ rows'[id].id = id
            /\ rows'[id].command = fetched[p][i].command
            /\ rows'[id].embedding = Some(ToBlob(vecs[p][i]))
            /\ FromBlob(rows'[id].embedding[1]) = backend[rows'[id].command]]_vars
\* One sync() has embedded two records of different texts, each with the
\* vector of its own text, and the two vectors differ.
C30_Witness ==
  /\ \E p \in Procs : syncRet[p] = Returned(2)
  /\ Len(rows) = 2 /\ rows[1].command # rows[2].command
  /\ \A i \in 1..2 : ~IsNull(rows[i].embedding) /\ FromBlob(rows[i].embedding[1]) = backend[rows[i].command]
  /\ rows[1].embedding # rows[2].embedding

\* C31: once a record is embedded, its embedded_at and embedding are never
\* written again: no commit of mark_embedded holds an UPDATE for a record
\* that is embedded already, and no step changes the two columns of such a
\* record, however sync() calls and inserts interleave.
C31_EmbeddedAtMostOnce ==
  [][/\ \A p \in Procs : SyncReturnsOk(p) =>
          \A j \in 1..Len(txn[p]) : UnembeddedRow(rows[txn[p][j].id])
     /\ \A i \in 1..Len(rows) :
          EmbeddedRow(rows[i]) =>
            (rows'[i].embedded_at = rows[i].embedded_at /\ rows'[i].embedding = rows[i].embedding)]_vars

\* C32: on a table that has both columns, every record is returned by
\* exactly one of get_unembedded_commands() and get_all_embedded_commands():
\* none by both, none by neither, also the records of a store that existed
\* before init_db added the embedding column.
C32_UnembeddedXorEmbedded ==
  schema = "current" =>
    \A i \in 1..Len(rows) :
      \A list \in get_all_embedded_commands(rows) :
        Listed(rows[i].id, get_unembedded_commands(rows)) <=> ~Listed(rows[i].id, list)

\* The result is made from the stored record: its command and timestamp,
\* and the record has an embedding.
MadeFrom(result, r) ==
  /\ result.command = r.command /\ result.timestamp = r.timestamp
  /\ ~IsNull(r.embedding)
\* Each result is made from a stored record of its own.
FromDistinctRecords(results, table) ==
  \E f \in [1..Len(results) -> 1..Len(table)] :
    /\ \A i, j \in 1..Len(results) : i # j => f[i] # f[j]
    /\ \A j \in 1..Len(results) : MadeFrom(results[j], table[f[j]])
\* C33: search() is read-only.  Whatever the query and max_results, and
\* whether it returns or raises, the call leaves the table and every record
\* as they were, and the results it returns are made from distinct stored
\* records that have an embedding.
C33_SearchReadOnly ==
  [][SearchCalled =>
       /\ rows' = rows /\ schema' = schema
       /\ lastSearch'.status = "ok" => FromDistinctRecords(lastSearch'.results, rows')
       /\ lastSearch'.status # "ok" => lastSearch'.results = <<>>]_vars
\* A search() has returned two results, made from the two embedded records.
C33_Witness ==
  /\ lastSearch.status = "ok" /\ Len(lastSearch.results) = 2
  /\ lastSearch.results[1].command # lastSearch.results[2].command
  /\ Len(rows) = 2 /\ \A i \in 1..2 : EmbeddedRow(rows[i])

\* C34: whenever a search is dispatched to a worker, by a debounce timer
\* that fires or by the completion of the initial sync, it is one worker,
\* for the input text of that moment: the text of the latest input event.
C34_DispatchesLatestInput ==
  [][dispatched' # dispatched =>
       /\ dispatched' = dispatched + 1
       /\ _query' = _query /\ inputs' = inputs
       /\ Cardinality(workers' \ workers) = 1
       /\ \A w \in workers' \ workers :
            w.seq = dispatched' /\ w.phase = "running" /\ w.query = _query /\ w.input = inputs]_vars
\* The initial sync is over and then the timer of the second input has
\* fired, after that input had superseded the first: a worker searches the
\* second input's text, and none was dispatched for the first one's.
C34_Witness ==
  /\ syncWorker = "done" /\ inputs = 2 /\ dispatched = 2
  /\ _debounce_task.state = "done" /\ _debounce_task.query = _query /\ Strip(_query) # ""
  /\ \E w \in workers : w.seq = 2 /\ w.input = 2 /\ w.query = _query
  /\ \A w \in workers : w.input # 1

====
